---- MODULE Spec2Model ----
(***************************************************************************)
(* Verification model of the background coordination layer of              *)
(* engreene-backend.  This part models JobQueueService                     *)
(* (src/src/services/redisService.test.ts, lines 185-565): the job record   *)
(* store, the five sorted-set indices of a named queue, the recurring tick  *)
(* started by startProcessing, and the producer operations.                 *)
(*                                                                         *)
(* Granularity: every store command awaited inside the tick callback is one *)
(* step, so producers (addJob, removeJob, ...) and the clock interleave     *)
(* with a tick between any two of its commands.  Producer operations are    *)
(* single steps.  Times are epoch milliseconds, as in the code.             *)
(* Fields of a job that no transition reads (data, createdAt,               *)
(* processedAt, completedAt, failedAt) are not represented.                 *)
(*                                                                         *)
(* The second part models SessionService (src/unnamed/part_009, lines       *)
(* 273-466), CacheService (src/src/services/cacheService.ts), the rate      *)
(* limit and lock helpers built on it (src/unnamed/part_020) and the        *)
(* start-up order of RedisService (src/src/services/redisService.ts).  A    *)
(* call of these services is one step per awaited store command, so calls   *)
(* interleave between any two of their commands.                            *)
(***************************************************************************)
EXTENDS Integers, Sequences, FiniteSets, TLC

(* ------------------------------ bounds -------------------------------- *)
NumJobs == 2
MaxTicks == 1
MaxFineSteps == 0
MaxTimers == 1
MaxDays == 1
NumSessions == 3
NumUsers == 2
NumCalls == 2
NumKeys == 2
MaxRequests == 2
MaxWindows == 1
MaxHours == 1
MaxLocks == 3
MaxOverlap == 1

JobIds == 1..NumJobs
Slots == 1..MaxTicks
\* the callbacks of the basic specifications, and those that run beside them
AllSlots == 1..(MaxTicks + MaxOverlap)
Insts == {1, 2}
SessionIds == 1..NumSessions
Users == 1..NumUsers
Calls == 1..NumCalls
Keys == 1..NumKeys

(* ------------------------- program constants --------------------------- *)
JOB_TTL_MS == 24 * 60 * 60 * 1000
DEFAULT_PRIORITY == 0
DEFAULT_MAX_ATTEMPTS == 3
BACKOFF_UNIT_MS == 1000
SESSION_DEFAULT_TTL == 24 * 60 * 60
CACHE_DEFAULT_TTL == 60 * 60
RATE_WINDOW_MS == 60000
LOCK_TTL_SECONDS == 30

(* ------------------------------ inputs --------------------------------- *)
Types == {"ok", "bad"}
PriorityOpts == {0, 1}
MaxAttemptsOpts == {0, 1}
DelayOpts == {0, 2000}
LongDelayOpts == {0, 2000, JOB_TTL_MS + 3600000}
CleanupOpts == {0, JOB_TTL_MS}
\* options.ttl in seconds, 0 for "not given"
SessionTtlOpts == {0, SESSION_DEFAULT_TTL \div 2, 2 * SESSION_DEFAULT_TTL}
CacheTtlOpts == {0, CACHE_DEFAULT_TTL \div 2}
Tags == {"t1", "t2"}

VARIABLES
  jobStore,            \* key job:<id> -> [val: Job, exp: expiry time]
  waiting,             \* sorted set  id -> score (-priority)
  delayed,             \* sorted set  id -> score (scheduled epoch ms)
  active,              \* members of the active sorted set (score never read)
  completed,           \* sorted set  id -> score (completion time)
  failed,              \* members of the failed sorted set (score never read)
  now,                 \* Date.now()
  handlers,            \* per instance: registered job types
  isProcessing,        \* per instance
  processingInterval,  \* per instance: TRUE iff the field holds a timer handle
  timers,              \* per instance: number of live setInterval timers
  pc,                  \* per callback slot: position in the tick / start call
  towner,              \* per slot: the instance the callback belongs to
  tkind,               \* per slot: "tick" (interval callback) or "start"
  tnow,                \* per slot: local `now` of processDelayedJobs
  tready,              \* per slot: local readyJobs still to be visited
  tid,                 \* per slot: local jobId of processNextJob
  tjob,                \* per slot: local job object
  tfail,               \* per slot: time the handler threw (history)
  tseen,               \* per slot: ids that were in waiting, with a handler
                       \* registered for their type, when it fired (history)
  added,               \* ids returned by addJob (history)
  removed,             \* ids for which removeJob returned (history)
  cleaned,             \* ids purged by cleanupCompletedJobs (history)
  execs,               \* per id: number of handler invocations (history)
  sessions,            \* key session:<id> -> [userId, parses, exp]
  userSessions,        \* key user_sessions:<u> -> [members, exp]
  cache,               \* key <prefix><name> -> [val, parses, exp]
  tagIndex,            \* key cache:tag:<t> -> [members, exp]
  cpc,                 \* per call: position in the service call
  cloc,                \* per call: arguments and locals of the call
  cres,                \* per call: what the last call returned
  sessionOwner,        \* per generated session id: its user (history)
  sessCreated,         \* ids returned by createSession (history)
  sessDeleted,         \* ids for which deleteSession returned (history)
  userPurged,          \* ids covered by a returned deleteUserSessions (history)
  cacheTags,           \* per key: tags of its last setWithTags, and of all (history)
  allowed,             \* per window: calls checkRateLimit let through (history)
  grants,              \* locks handed out: [value, exp] (history)
  coord,               \* position of RedisService.initialize
  cqueue               \* the coordinator queue that the model follows

storeVars == <<jobStore, waiting, delayed, active, completed, failed, now>>
instVars  == <<handlers, isProcessing, processingInterval, timers>>
slotVars  == <<pc, towner, tkind, tnow, tready, tid, tjob, tfail, tseen>>
histVars  == <<added, removed, cleaned, execs>>
sessVars  == <<sessions, userSessions, sessionOwner, sessCreated, sessDeleted,
               userPurged>>
cacheVars == <<cache, tagIndex, cacheTags, allowed, grants>>
callVars  == <<cpc, cloc, cres>>
coordVars == <<coord, cqueue>>
svcVars   == <<sessVars, cacheVars, callVars, coordVars>>
vars == <<storeVars, instVars, slotVars, histVars, svcVars>>

(* ------------------------------ helpers -------------------------------- *)
RECURSIVE Pow2(_)
Pow2(n) == IF n <= 0 THEN 1 ELSE 2 * Pow2(n - 1)

\* JavaScript `x || d` on an optional number: undefined and 0 are falsy
OrDefault(x, d) == IF x = 0 THEN d ELSE x

NullJob == [id |-> 0, type |-> "", priority |-> 0, attempts |-> 0,
            maxAttempts |-> 0, delay |-> 0, scheduledFor |-> 0, error |-> ""]

ZAdd(z, id, s) == [x \in (DOMAIN z) \cup {id} |-> IF x = id THEN s ELSE z[x]]
ZRem(z, id) == [x \in (DOMAIN z) \ {id} |-> z[x]]

\* sorted-set order: ascending score, ties by member
ZBefore(z, a, b) == z[a] < z[b] \/ (z[a] = z[b] /\ a < b)

RECURSIVE ZSorted(_, _)
ZSorted(z, S) ==
  IF S = {} THEN <<>>
  ELSE LET m == CHOOSE x \in S : \A y \in S \ {x} : ZBefore(z, x, y)
       IN  <<m>> \o ZSorted(z, S \ {m})

ZRangeByScore(z, lo, hi) == ZSorted(z, {x \in DOMAIN z : lo <= z[x] /\ z[x] <= hi})

\* zRange(key, 0, 0)
ZRangeFirst(z) ==
  IF DOMAIN z = {} THEN <<>> ELSE <<Head(ZSorted(z, DOMAIN z))>>

GetJob(id) ==
  IF id \in DOMAIN jobStore /\ now < jobStore[id].exp
  THEN jobStore[id].val
  ELSE NullJob

\* setEx(job:<id>, 24h, JSON.stringify(job))
SetEx(job) ==
  [x \in (DOMAIN jobStore) \cup {job.id} |->
     IF x = job.id THEN [val |-> job, exp |-> now + JOB_TTL_MS] ELSE jobStore[x]]

Del(S) == [x \in (DOMAIN jobStore) \ S |-> jobStore[x]]

\* behaviour of the handler registered for a type
Outcomes(type) ==
  CASE type = "ok" -> {"return"}
    [] type = "bad" -> {"throw"}
    [] OTHER -> {"return", "throw"}

\* variant of RetryDelay: the exponent is the number of retries, not of attempts
RetryDelayFromZero(attempts) == Pow2(attempts - 1) * BACKOFF_UNIT_MS

RetryDelay(attempts) == Pow2(attempts) * BACKOFF_UNIT_MS

\* variants of MaxAttemptsReached: the comparison is off by one either way
MaxAttemptsExceeded(job) == job.attempts > job.maxAttempts

MaxAttemptsAlmostReached(job) == job.attempts + 1 >= job.maxAttempts

MaxAttemptsReached(job) == job.attempts >= job.maxAttempts

\* variant of WaitingScore: the sign of the priority is not flipped
WaitingScoreAscending(job) == job.priority

WaitingScore(job) == 0 - job.priority

(* ------------------------ state of the services ------------------------ *)
\* an expiry of NoExpiry is a key without a TTL
NoExpiry == 0 - 1

NullSession == [userId |-> 0, parses |-> TRUE, exp |-> 0]
NullEntry == [val |-> 0, parses |-> TRUE, exp |-> 0]
NullKey == <<"", 0>>

NullCall == [op |-> "", sessionId |-> 0, userId |-> 0, ttl |-> 0,
             sessionData |-> NullSession, sessionIds |-> {}, snapshot |-> {},
             key |-> NullKey, tags |-> {}, todo |-> {}, keys |-> {},
             window |-> 0, value |-> 0]

\* ok: the call returned a value that is not null/false; n: the number it
\* returned; raised: the call threw instead of returning
NullResult == [ok |-> FALSE, n |-> 0, raised |-> FALSE]

ServicesInit ==
  /\ sessions = <<>>
  /\ userSessions = <<>>
  /\ cache = <<>>
  /\ tagIndex = <<>>
  /\ cpc = [c \in Calls |-> "idle"]
  /\ cloc = [c \in Calls |-> NullCall]
  /\ cres = [c \in Calls |-> NullResult]
  /\ sessionOwner = <<>>
  /\ sessCreated = {}
  /\ sessDeleted = {}
  /\ userPurged = {}
  /\ cacheTags = <<>>
  /\ allowed = <<>>
  /\ grants = {}
  /\ coord = "new"
  /\ cqueue = ""

(* ------------------------------- Init ---------------------------------- *)
Init ==
  /\ jobStore = <<>>
  /\ waiting = <<>>
  /\ delayed = <<>>
  /\ active = {}
  /\ completed = <<>>
  /\ failed = {}
  /\ now = 0
  /\ handlers = [i \in Insts |-> {}]
  /\ isProcessing = [i \in Insts |-> FALSE]
  /\ processingInterval = [i \in Insts |-> FALSE]
  /\ timers = [i \in Insts |-> 0]
  /\ pc = [k \in AllSlots |-> "idle"]
  /\ towner = [k \in AllSlots |-> 0]
  /\ tkind = [k \in AllSlots |-> ""]
  /\ tnow = [k \in AllSlots |-> 0]
  /\ tready = [k \in AllSlots |-> <<>>]
  /\ tid = [k \in AllSlots |-> 0]
  /\ tjob = [k \in AllSlots |-> NullJob]
  /\ tfail = [k \in AllSlots |-> 0]
  /\ tseen = [k \in AllSlots |-> {}]
  /\ added = {}
  /\ removed = {}
  /\ cleaned = {}
  /\ execs = [j \in JobIds |-> 0]
  /\ ServicesInit

(* --------------------------- producer calls ---------------------------- *)
AddJob(id, type, priority, maxAttempts, delay) ==
  LET scheduledFor == now + OrDefault(delay, 0)
      job == [id |-> id, type |-> type,
              priority |-> OrDefault(priority, DEFAULT_PRIORITY),
              attempts |-> 0,
              maxAttempts |-> OrDefault(maxAttempts, DEFAULT_MAX_ATTEMPTS),
              delay |-> OrDefault(delay, 0),
              scheduledFor |-> scheduledFor, error |-> ""]
  IN  /\ id \notin added
      /\ jobStore' = SetEx(job)
      /\ IF delay # 0 /\ delay > 0
         THEN /\ delayed' = ZAdd(delayed, id, scheduledFor)
              /\ UNCHANGED waiting
         ELSE /\ waiting' = ZAdd(waiting, id, WaitingScore(job))
              /\ UNCHANGED delayed
      /\ added' = added \cup {id}
      /\ UNCHANGED <<svcVars, active, completed, failed, now, instVars, slotVars,
                     removed, cleaned, execs>>

RegisterHandler(i, type) ==
  /\ type \notin handlers[i]
  /\ handlers' = [handlers EXCEPT ![i] = @ \cup {type}]
  /\ UNCHANGED <<svcVars, storeVars, isProcessing, processingInterval, timers,
                 slotVars, histVars>>

RemoveJob(id) ==
  /\ id \in added \ removed
  /\ waiting' = ZRem(waiting, id)
  /\ active' = active \ {id}
  /\ delayed' = ZRem(delayed, id)
  /\ completed' = ZRem(completed, id)
  /\ failed' = failed \ {id}
  /\ jobStore' = Del({id})
  /\ removed' = removed \cup {id}
  /\ UNCHANGED <<svcVars, now, instVars, slotVars, added, cleaned, execs>>

CleanupCompletedJobs(olderThanMs) ==
  LET cutoffTime == now - olderThanMs
      oldJobIds == ZRangeByScore(completed, 0, cutoffTime)
      old == {oldJobIds[n] : n \in 1..Len(oldJobIds)}
  IN  /\ oldJobIds # <<>>
      /\ completed' = [x \in (DOMAIN completed) \ old |-> completed[x]]
      /\ jobStore' = Del(old)
      /\ cleaned' = cleaned \cup old
      /\ UNCHANGED <<svcVars, waiting, delayed, active, failed, now, instVars,
                     slotVars, added, removed, execs>>

(* ------------------------------ the clock ------------------------------ *)
\* Time passes while no callback is between two store commands (a store
\* round trip is short against the clock's grain); a handler may run for any
\* length of time.  The clock moves by one fine step (while few have been
\* taken), straight to the next scheduled time of a delayed job, or by the
\* lifetime of a job record.
ClockTargets ==
  {t \in {delayed[j] : j \in DOMAIN delayed} : t > now}
    \cup (IF now + BACKOFF_UNIT_MS <= MaxFineSteps * BACKOFF_UNIT_MS
          THEN {now + BACKOFF_UNIT_MS} ELSE {})

StoreIdle == \A k \in AllSlots : pc[k] \in {"idle", "running"}

AdvanceClock(t) ==
  /\ t \in ClockTargets
  /\ StoreIdle
  /\ now' = t
  /\ UNCHANGED <<svcVars, jobStore, waiting, delayed, active, completed, failed,
                 instVars, slotVars, histVars>>

\* a whole record lifetime passes
AdvanceDay ==
  /\ now < MaxDays * JOB_TTL_MS
  /\ StoreIdle
  /\ now' = now + JOB_TTL_MS
  /\ UNCHANGED <<svcVars, jobStore, waiting, delayed, active, completed, failed,
                 instVars, slotVars, histVars>>

(* ------------------- startProcessing / stopProcessing ------------------ *)
\* local bookkeeping of a callback slot that has returned
SlotIdle(k) ==
  /\ pc' = [pc EXCEPT ![k] = "idle"]
  /\ towner' = [towner EXCEPT ![k] = 0]
  /\ tkind' = [tkind EXCEPT ![k] = ""]
  /\ tnow' = [tnow EXCEPT ![k] = 0]
  /\ tready' = [tready EXCEPT ![k] = <<>>]
  /\ tid' = [tid EXCEPT ![k] = 0]
  /\ tjob' = [tjob EXCEPT ![k] = NullJob]
  /\ tfail' = [tfail EXCEPT ![k] = 0]
  /\ tseen' = [tseen EXCEPT ![k] = {}]

\* where a call goes once processDelayedJobs has returned
AfterPromotion(kind) == IF kind = "start" THEN "st_set" ELSE "pn_read"

\* processDelayedJobs, up to and including its zRangeByScore
BeginPromotion(k, i, kind) ==
  LET readyJobs == ZRangeByScore(delayed, 0, now)
  IN  /\ towner' = [towner EXCEPT ![k] = i]
      /\ tkind' = [tkind EXCEPT ![k] = kind]
      /\ tnow' = [tnow EXCEPT ![k] = now]
      /\ tready' = [tready EXCEPT ![k] = readyJobs]
      /\ pc' = [pc EXCEPT ![k] =
                  IF readyJobs = <<>> THEN AfterPromotion(kind) ELSE "pd_get"]
      /\ tseen' = [tseen EXCEPT ![k] =
                     {j \in DOMAIN waiting : GetJob(j).type \in handlers[i]}]
      /\ UNCHANGED <<tid, tjob, tfail>>

\* the store commands of one instance's callbacks do not overlap: a new
\* callback starts only while the others are idle or inside a handler
StoreQuiet(i, k) ==
  \A k2 \in AllSlots \ {k} : towner[k2] = i => pc[k2] \in {"idle", "running"}

StartProcessing(i, k) ==
  /\ ~isProcessing[i]
  /\ pc[k] = "idle"
  /\ StoreQuiet(i, k)
  /\ timers[i] < MaxTimers
  /\ isProcessing' = [isProcessing EXCEPT ![i] = TRUE]
  /\ BeginPromotion(k, i, "start")
  /\ UNCHANGED <<svcVars, storeVars, handlers, processingInterval, timers, histVars>>

\* this.processingInterval = setInterval(...)
StSet(k) ==
  /\ pc[k] = "st_set"
  /\ timers' = [timers EXCEPT ![towner[k]] = @ + 1]
  /\ processingInterval' = [processingInterval EXCEPT ![towner[k]] = TRUE]
  /\ SlotIdle(k)
  /\ UNCHANGED <<svcVars, storeVars, handlers, isProcessing, histVars>>

StopProcessing(i) ==
  /\ isProcessing[i]
  /\ isProcessing' = [isProcessing EXCEPT ![i] = FALSE]
  /\ IF processingInterval[i]
     THEN /\ timers' = [timers EXCEPT ![i] = @ - 1]
          /\ processingInterval' = [processingInterval EXCEPT ![i] = FALSE]
     ELSE UNCHANGED <<timers, processingInterval>>
  /\ UNCHANGED <<svcVars, storeVars, handlers, slotVars, histVars>>

(* ----------------------------- the tick -------------------------------- *)
\* a live interval timer fires its callback
TickFire(i, k) ==
  /\ timers[i] > 0
  /\ pc[k] = "idle"
  /\ StoreQuiet(i, k)
  /\ BeginPromotion(k, i, "tick")
  /\ UNCHANGED <<svcVars, storeVars, instVars, histVars>>

\* processDelayedJobs: const job = await this.getJob(jobId)
PdGet(k) ==
  /\ pc[k] = "pd_get"
  /\ LET jobId == Head(tready[k])
         job == GetJob(jobId)
         rest == Tail(tready[k])
     IN  IF job # NullJob
         THEN /\ tjob' = [tjob EXCEPT ![k] = job]
              /\ pc' = [pc EXCEPT ![k] = "pd_rem"]
              /\ UNCHANGED tready
         ELSE /\ tready' = [tready EXCEPT ![k] = rest]
              /\ pc' = [pc EXCEPT ![k] =
                          IF rest = <<>> THEN AfterPromotion(tkind[k]) ELSE "pd_get"]
              /\ UNCHANGED tjob
  /\ UNCHANGED <<svcVars, storeVars, instVars, towner, tkind, tnow, tid, tfail, tseen, histVars>>

\* processDelayedJobs: await client.zRem(delayedQueueKey, jobId)
PdRem(k) ==
  /\ pc[k] = "pd_rem"
  /\ delayed' = ZRem(delayed, tjob[k].id)
  /\ pc' = [pc EXCEPT ![k] = "pd_add"]
  /\ UNCHANGED <<svcVars, jobStore, waiting, active, completed, failed, now, instVars,
                 towner, tkind, tnow, tready, tid, tjob, tfail, tseen, histVars>>

\* processDelayedJobs: await client.zAdd(waitingQueueKey, {score: -job.priority})
PdAdd(k) ==
  /\ pc[k] = "pd_add"
  /\ waiting' = ZAdd(waiting, tjob[k].id, WaitingScore(tjob[k]))
  /\ LET rest == Tail(tready[k])
     IN  /\ tready' = [tready EXCEPT ![k] = rest]
         /\ pc' = [pc EXCEPT ![k] =
                     IF rest = <<>> THEN AfterPromotion(tkind[k]) ELSE "pd_get"]
  /\ tjob' = [tjob EXCEPT ![k] = NullJob]
  /\ UNCHANGED <<svcVars, jobStore, delayed, active, completed, failed, now, instVars,
                 towner, tkind, tnow, tid, tfail, tseen, histVars>>

\* processNextJob: const jobIds = await client.zRange(waitingQueueKey, 0, 0)
PnRead(k) ==
  /\ pc[k] = "pn_read"
  /\ LET jobIds == ZRangeFirst(waiting)
     IN  IF jobIds = <<>>
         THEN SlotIdle(k)
         ELSE /\ tid' = [tid EXCEPT ![k] = jobIds[1]]
              /\ pc' = [pc EXCEPT ![k] = "pn_get"]
              /\ UNCHANGED <<towner, tkind, tnow, tready, tjob, tfail, tseen>>
  /\ UNCHANGED <<svcVars, storeVars, instVars, histVars>>

\* processNextJob: const job = await this.getJob(jobId)
PnGet(k) ==
  /\ pc[k] = "pn_get"
  /\ LET job == GetJob(tid[k])
     IN  IF job = NullJob
         THEN /\ pc' = [pc EXCEPT ![k] = "pn_drop"]
              /\ UNCHANGED tjob
         ELSE /\ tjob' = [tjob EXCEPT ![k] = job]
              /\ pc' = [pc EXCEPT ![k] = "pn_rem"]
  /\ UNCHANGED <<svcVars, storeVars, instVars, towner, tkind, tnow, tready, tid, tfail,
                 tseen, histVars>>

\* processNextJob: job not found, remove from queue
PnDrop(k) ==
  /\ pc[k] = "pn_drop"
  /\ waiting' = ZRem(waiting, tid[k])
  /\ SlotIdle(k)
  /\ UNCHANGED <<svcVars, jobStore, delayed, active, completed, failed, now, instVars,
                 histVars>>

\* variant of PnRem: the id is left in waiting
PnRemSkipped(k) ==
  /\ pc[k] = "pn_rem"
  /\ pc' = [pc EXCEPT ![k] = "pn_add"]
  /\ UNCHANGED <<svcVars, storeVars, instVars, towner, tkind, tnow, tready, tid, tjob,
                 tfail, tseen, histVars>>

\* variant of PnRem: the callback goes on only if its zRem removed the entry
PnRemClaimed(k) ==
  /\ pc[k] = "pn_rem"
  /\ IF tid[k] \in DOMAIN waiting
     THEN /\ waiting' = ZRem(waiting, tid[k])
          /\ pc' = [pc EXCEPT ![k] = "pn_add"]
          /\ UNCHANGED <<towner, tkind, tnow, tready, tid, tjob, tfail, tseen>>
     ELSE /\ SlotIdle(k)
          /\ UNCHANGED waiting
  /\ UNCHANGED <<svcVars, jobStore, delayed, active, completed, failed, now, instVars,
                 histVars>>

\* processNextJob: await client.zRem(waitingQueueKey, jobId)
PnRem(k) ==
  /\ pc[k] = "pn_rem"
  /\ waiting' = ZRem(waiting, tid[k])
  /\ pc' = [pc EXCEPT ![k] = "pn_add"]
  /\ UNCHANGED <<svcVars, jobStore, delayed, active, completed, failed, now, instVars,
                 towner, tkind, tnow, tready, tid, tjob, tfail, tseen, histVars>>

\* (ExecuteEntryCounting is the variant that counts a missing handler as an
\* attempt.)
\* executeJob entry, run synchronously once the zAdd to active has resolved:
\* without a handler the job goes to failJob as it is, otherwise job.attempts++
ExecuteEntryCounting(job, registered) ==
  IF job.type \notin registered
  THEN [next |-> "fj_update",
        job |-> [job EXCEPT !.error = "nohandler", !.attempts = @ + 1]]
  ELSE [next |-> "ex_update", job |-> [job EXCEPT !.attempts = @ + 1]]

ExecuteEntry(job, registered) ==
  IF job.type \notin registered
  THEN [next |-> "fj_update", job |-> [job EXCEPT !.error = "nohandler"]]
  ELSE [next |-> "ex_update", job |-> [job EXCEPT !.attempts = @ + 1]]

\* processNextJob: await client.zAdd(activeQueueKey, ...), then executeJob(job)
PnAdd(k) ==
  /\ pc[k] = "pn_add"
  /\ active' = active \cup {tid[k]}
  /\ LET e == ExecuteEntry(tjob[k], handlers[towner[k]])
     IN  /\ tjob' = [tjob EXCEPT ![k] = e.job]
         /\ pc' = [pc EXCEPT ![k] = e.next]
  /\ UNCHANGED <<svcVars, jobStore, waiting, delayed, completed, failed, now, instVars,
                 towner, tkind, tnow, tready, tid, tfail, tseen, histVars>>

\* executeJob: await this.updateJob(job), then the handler is invoked
ExUpdate(k) ==
  /\ pc[k] = "ex_update"
  /\ jobStore' = SetEx(tjob[k])
  /\ execs' = [execs EXCEPT ![tjob[k].id] = @ + 1]
  /\ pc' = [pc EXCEPT ![k] = "running"]
  /\ UNCHANGED <<svcVars, waiting, delayed, active, completed, failed, now, instVars,
                 towner, tkind, tnow, tready, tid, tjob, tfail, tseen,
                 added, removed, cleaned>>

\* await handler(job) resolves
HandlerReturn(k) ==
  /\ pc[k] = "running"
  /\ "return" \in Outcomes(tjob[k].type)
  /\ pc' = [pc EXCEPT ![k] = "ex_done"]
  /\ UNCHANGED <<svcVars, storeVars, instVars, towner, tkind, tnow, tready, tid, tjob,
                 tfail, tseen, histVars>>

\* variant of OnThrow: a failure counts as one more attempt
OnThrowCounting(job, t) ==
  IF MaxAttemptsReached(job)
  THEN [next |-> "fj_update",
        job |-> [job EXCEPT !.error = "exception", !.attempts = @ + 1]]
  ELSE [next |-> "rt_rem",
        job |-> [job EXCEPT !.scheduledFor = t + RetryDelay(job.attempts),
                            !.attempts = @ + 1]]

\* the catch block of executeJob, up to its first await
OnThrow(job, t) ==
  IF MaxAttemptsReached(job)
  THEN [next |-> "fj_update", job |-> [job EXCEPT !.error = "exception"]]
  ELSE [next |-> "rt_rem",
        job |-> [job EXCEPT !.scheduledFor = t + RetryDelay(job.attempts)]]

\* variant of HandlerThrow: the exception leaves executeJob and ends the callback
HandlerThrowEscapes(k) ==
  /\ pc[k] = "running"
  /\ "throw" \in Outcomes(tjob[k].type)
  /\ SlotIdle(k)
  /\ UNCHANGED <<svcVars, storeVars, instVars, histVars>>

\* await handler(job) rejects
HandlerThrow(k) ==
  /\ pc[k] = "running"
  /\ "throw" \in Outcomes(tjob[k].type)
  /\ LET c == OnThrow(tjob[k], now)
     IN  /\ tjob' = [tjob EXCEPT ![k] = c.job]
         /\ pc' = [pc EXCEPT ![k] = c.next]
  /\ tfail' = [tfail EXCEPT ![k] = now]
  /\ UNCHANGED <<svcVars, storeVars, instVars, towner, tkind, tnow, tready, tid, tseen,
                 histVars>>

\* success: await this.updateJob(job)
ExDone(k) ==
  /\ pc[k] = "ex_done"
  /\ jobStore' = SetEx(tjob[k])
  /\ pc' = [pc EXCEPT ![k] = "ex_rem"]
  /\ UNCHANGED <<svcVars, waiting, delayed, active, completed, failed, now, instVars,
                 towner, tkind, tnow, tready, tid, tjob, tfail, tseen, histVars>>

\* variant of ExRem: the id is left in active
ExRemSkipped(k) ==
  /\ pc[k] = "ex_rem"
  /\ pc' = [pc EXCEPT ![k] = "ex_add"]
  /\ UNCHANGED <<svcVars, storeVars, instVars, towner, tkind, tnow, tready, tid, tjob,
                 tfail, tseen, histVars>>

\* success: await client.zRem(activeQueueKey, job.id)
ExRem(k) ==
  /\ pc[k] = "ex_rem"
  /\ active' = active \ {tjob[k].id}
  /\ pc' = [pc EXCEPT ![k] = "ex_add"]
  /\ UNCHANGED <<svcVars, jobStore, waiting, delayed, completed, failed, now, instVars,
                 towner, tkind, tnow, tready, tid, tjob, tfail, tseen, histVars>>

\* success: await client.zAdd(completedQueueKey, {score: Date.now()})
ExAdd(k) ==
  /\ pc[k] = "ex_add"
  /\ completed' = ZAdd(completed, tjob[k].id, now)
  /\ SlotIdle(k)
  /\ UNCHANGED <<svcVars, jobStore, waiting, delayed, active, failed, now, instVars,
                 histVars>>

\* retry: await client.zRem(activeQueueKey, job.id)
RtRem(k) ==
  /\ pc[k] = "rt_rem"
  /\ active' = active \ {tjob[k].id}
  /\ pc' = [pc EXCEPT ![k] = "rt_add"]
  /\ UNCHANGED <<svcVars, jobStore, waiting, delayed, completed, failed, now, instVars,
                 towner, tkind, tnow, tready, tid, tjob, tfail, tseen, histVars>>

\* retry: await client.zAdd(delayed, {score: Date.now() + retryDelay})
RtAdd(k) ==
  /\ pc[k] = "rt_add"
  /\ delayed' = ZAdd(delayed, tjob[k].id, now + RetryDelay(tjob[k].attempts))
  /\ pc' = [pc EXCEPT ![k] = "rt_update"]
  /\ UNCHANGED <<svcVars, jobStore, waiting, active, completed, failed, now, instVars,
                 towner, tkind, tnow, tready, tid, tjob, tfail, tseen, histVars>>

\* retry: await this.updateJob(job)
RtUpdate(k) ==
  /\ pc[k] = "rt_update"
  /\ jobStore' = SetEx(tjob[k])
  /\ SlotIdle(k)
  /\ UNCHANGED <<svcVars, waiting, delayed, active, completed, failed, now, instVars,
                 histVars>>

\* failJob: await this.updateJob(job)
FjUpdate(k) ==
  /\ pc[k] = "fj_update"
  /\ jobStore' = SetEx(tjob[k])
  /\ pc' = [pc EXCEPT ![k] = "fj_rem"]
  /\ UNCHANGED <<svcVars, waiting, delayed, active, completed, failed, now, instVars,
                 towner, tkind, tnow, tready, tid, tjob, tfail, tseen, histVars>>

\* failJob: await client.zRem(activeQueueKey, job.id)
FjRem(k) ==
  /\ pc[k] = "fj_rem"
  /\ active' = active \ {tjob[k].id}
  /\ pc' = [pc EXCEPT ![k] = "fj_add"]
  /\ UNCHANGED <<svcVars, jobStore, waiting, delayed, completed, failed, now, instVars,
                 towner, tkind, tnow, tready, tid, tjob, tfail, tseen, histVars>>

\* failJob: await client.zAdd(failedQueueKey, ...)
FjAdd(k) ==
  /\ pc[k] = "fj_add"
  /\ failed' = failed \cup {tjob[k].id}
  /\ SlotIdle(k)
  /\ UNCHANGED <<svcVars, jobStore, waiting, delayed, active, completed, now, instVars,
                 histVars>>

(* ======================== SessionService ================================ *)
queueVars == <<jobStore, waiting, delayed, active, completed, failed,
               instVars, slotVars, histVars>>

\* a call goes on to its next awaited command
Goto(c, label, loc) ==
  /\ cpc' = [cpc EXCEPT ![c] = label]
  /\ cloc' = [cloc EXCEPT ![c] = loc]
  /\ UNCHANGED cres

\* a call returns (or throws) to its caller
Return(c, res) ==
  /\ cpc' = [cpc EXCEPT ![c] = "idle"]
  /\ cloc' = [cloc EXCEPT ![c] = NullCall]
  /\ cres' = [cres EXCEPT ![c] = res]

Result(ok, n) == [ok |-> ok, n |-> n, raised |-> FALSE]

Raised == [ok |-> FALSE, n |-> 0, raised |-> TRUE]

\* no service call is between two store commands
CallsIdle == \A c \in Calls : cpc[c] = "idle"

\* a key with a TTL is gone once its expiry time is reached
Unexpired(exp) == exp = NoExpiry \/ now < exp

SessLive(s) == s \in DOMAIN sessions /\ Unexpired(sessions[s].exp)
IndexLive(u) == u \in DOMAIN userSessions /\ Unexpired(userSessions[u].exp)

\* client.get(session:<id>)
SessGet(s) == IF SessLive(s) THEN sessions[s] ELSE NullSession

\* client.setEx(session:<id>, ttl, JSON.stringify(data)), ttl in seconds
SessSetEx(s, ttl, userId) ==
  [x \in (DOMAIN sessions) \cup {s} |->
     IF x = s THEN [userId |-> userId, parses |-> TRUE, exp |-> now + ttl * 1000]
     ELSE sessions[x]]

SessDel(S) == [x \in (DOMAIN sessions) \ S |-> sessions[x]]

\* client.sMembers(user_sessions:<u>)
SMembers(u) == IF IndexLive(u) THEN userSessions[u].members ELSE {}

\* client.sAdd(user_sessions:<u>, id): a new key has no TTL, an old one keeps its own
SAdd(u, s) ==
  [x \in (DOMAIN userSessions) \cup {u} |->
     IF x = u
     THEN IF IndexLive(u)
          THEN [userSessions[u] EXCEPT !.members = @ \cup {s}]
          ELSE [members |-> {s}, exp |-> NoExpiry]
     ELSE userSessions[x]]

\* client.sRem(user_sessions:<u>, id): a set left empty is no key any more
SRem(u, s) ==
  LET gone == IF SMembers(u) \ {s} = {} THEN {u} ELSE {}
  IN  [x \in (DOMAIN userSessions) \ gone |->
         IF x = u THEN [userSessions[u] EXCEPT !.members = @ \ {s}]
         ELSE userSessions[x]]

\* client.expire(user_sessions:<u>, ttl)
IndexExpire(u, ttl) ==
  IF IndexLive(u)
  THEN [userSessions EXCEPT ![u].exp = now + ttl * 1000]
  ELSE userSessions

\* uuidv4(): an id that was never generated before
UnusedSessionIds == SessionIds \ DOMAIN sessionOwner
NewSessionId == CHOOSE s \in UnusedSessionIds : \A s2 \in UnusedSessionIds : s <= s2

\* createSession, up to and including its setEx
CreateSession(c, userId, ttlOpt) ==
  LET ttl == OrDefault(ttlOpt, SESSION_DEFAULT_TTL)
  IN  /\ cpc[c] = "idle"
      /\ UnusedSessionIds # {}
      /\ sessions' = SessSetEx(NewSessionId, ttl, userId)
      /\ sessionOwner' = [x \in (DOMAIN sessionOwner) \cup {NewSessionId} |->
                            IF x = NewSessionId THEN userId ELSE sessionOwner[x]]
      /\ Goto(c, "cs_add", [NullCall EXCEPT !.op = "createSession",
                              !.sessionId = NewSessionId, !.userId = userId,
                              !.ttl = ttl])
      /\ UNCHANGED <<queueVars, now, userSessions, sessCreated, sessDeleted,
                     userPurged, cacheVars, coordVars>>

\* createSession: await client.sAdd(user_sessions:<u>, sessionId)
CsAdd(c) ==
  /\ cpc[c] = "cs_add"
  /\ userSessions' = SAdd(cloc[c].userId, cloc[c].sessionId)
  /\ Goto(c, "cs_expire", cloc[c])
  /\ UNCHANGED <<queueVars, now, sessions, sessionOwner, sessCreated,
                 sessDeleted, userPurged, cacheVars, coordVars>>

\* createSession: await client.expire(user_sessions:<u>, ttl); return sessionId
CsExpire(c) ==
  /\ cpc[c] = "cs_expire"
  /\ userSessions' = IndexExpire(cloc[c].userId, cloc[c].ttl)
  /\ sessCreated' = sessCreated \cup {cloc[c].sessionId}
  /\ Return(c, Result(TRUE, 0))
  /\ UNCHANGED <<queueVars, now, sessions, sessionOwner, sessDeleted,
                 userPurged, cacheVars, coordVars>>

\* getSession, up to and including its get and JSON.parse; op is the public
\* method that runs it: getSession itself, isValidSession, updateSession or
\* deleteSession
ReadSession(c, op, sessionId) ==
  LET sessionDataStr == SessGet(sessionId)
      loc == [NullCall EXCEPT !.op = op, !.sessionId = sessionId,
                              !.sessionData = sessionDataStr]
  IN  /\ cpc[c] = "idle"
      /\ sessionId \in DOMAIN sessionOwner
      /\ IF sessionDataStr = NullSession
         THEN IF op = "deleteSession"
              THEN Goto(c, "ds_del", loc)
              ELSE Return(c, Result(FALSE, 0))
         ELSE IF ~sessionDataStr.parses
              THEN Return(c, Raised)
              ELSE Goto(c, "gs_set", loc)
      /\ UNCHANGED <<queueVars, now, sessVars, cacheVars, coordVars>>

GetSession(c, sessionId) == ReadSession(c, "getSession", sessionId)
IsValidSession(c, sessionId) == ReadSession(c, "isValidSession", sessionId)
UpdateSession(c, sessionId) == ReadSession(c, "updateSession", sessionId)
DeleteSession(c, sessionId) == ReadSession(c, "deleteSession", sessionId)

\* getSession: await client.setEx(sessionKey, DEFAULT_TTL, ...); return
GsSet(c) ==
  /\ cpc[c] = "gs_set"
  /\ sessions' = SessSetEx(cloc[c].sessionId, SESSION_DEFAULT_TTL,
                           cloc[c].sessionData.userId)
  /\ CASE cloc[c].op = "updateSession" -> Goto(c, "us_set", cloc[c])
       [] cloc[c].op = "deleteSession" -> Goto(c, "ds_rem", cloc[c])
       [] OTHER -> Return(c, Result(TRUE, 0))
  /\ UNCHANGED <<queueVars, now, userSessions, sessionOwner, sessCreated,
                 sessDeleted, userPurged, cacheVars, coordVars>>

\* updateSession: await client.setEx(sessionKey, DEFAULT_TTL, updated); return true
UsSet(c) ==
  /\ cpc[c] = "us_set"
  /\ sessions' = SessSetEx(cloc[c].sessionId, SESSION_DEFAULT_TTL,
                           cloc[c].sessionData.userId)
  /\ Return(c, Result(TRUE, 0))
  /\ UNCHANGED <<queueVars, now, userSessions, sessionOwner, sessCreated,
                 sessDeleted, userPurged, cacheVars, coordVars>>

\* deleteSession: await client.sRem(user_sessions:<sessionData.userId>, sessionId)
DsRem(c) ==
  /\ cpc[c] = "ds_rem"
  /\ userSessions' = SRem(cloc[c].sessionData.userId, cloc[c].sessionId)
  /\ Goto(c, "ds_del", cloc[c])
  /\ UNCHANGED <<queueVars, now, sessions, sessionOwner, sessCreated,
                 sessDeleted, userPurged, cacheVars, coordVars>>

\* deleteSession: const result = await client.del(sessionKey); return result > 0
DsDel(c) ==
  /\ cpc[c] = "ds_del"
  /\ sessions' = SessDel({cloc[c].sessionId})
  /\ sessDeleted' = sessDeleted \cup {cloc[c].sessionId}
  /\ Return(c, Result(SessLive(cloc[c].sessionId), 0))
  /\ UNCHANGED <<queueVars, now, userSessions, sessionOwner, sessCreated,
                 userPurged, cacheVars, coordVars>>

\* deleteUserSessions, up to and including its sMembers
DeleteUserSessions(c, userId) ==
  LET sessionIds == SMembers(userId)
      loc == [NullCall EXCEPT !.op = "deleteUserSessions", !.userId = userId,
                              !.sessionIds = sessionIds,
                              !.snapshot = {s \in sessCreated : sessionOwner[s] = userId}]
  IN  /\ cpc[c] = "idle"
      /\ IF sessionIds = {}
         THEN /\ Return(c, Result(FALSE, 0))
              /\ userPurged' = userPurged \cup loc.snapshot
         ELSE /\ Goto(c, "du_del", loc)
              /\ UNCHANGED userPurged
      /\ UNCHANGED <<queueVars, now, sessions, userSessions, sessionOwner,
                     sessCreated, sessDeleted, cacheVars, coordVars>>

\* deleteUserSessions: deletedCount = await client.del([...sessionKeys, userSessionsKey])
DuDel(c) ==
  LET userId == cloc[c].userId
      deletedCount == Cardinality({s \in cloc[c].sessionIds : SessLive(s)})
                        + (IF IndexLive(userId) THEN 1 ELSE 0)
  IN  /\ cpc[c] = "du_del"
      /\ sessions' = SessDel(cloc[c].sessionIds)
      /\ userSessions' = [x \in (DOMAIN userSessions) \ {userId} |-> userSessions[x]]
      /\ userPurged' = userPurged \cup cloc[c].snapshot
      /\ Return(c, Result(deletedCount > 0, deletedCount))
      /\ UNCHANGED <<queueVars, now, sessionOwner, sessCreated, sessDeleted,
                     cacheVars, coordVars>>

\* extendSession, up to and including its exists
ExtendSession(c, sessionId, additionalSeconds) ==
  LET loc == [NullCall EXCEPT !.op = "extendSession", !.sessionId = sessionId,
                              !.ttl = additionalSeconds]
  IN  /\ cpc[c] = "idle"
      /\ sessionId \in DOMAIN sessionOwner
      /\ IF SessLive(sessionId)
         THEN Goto(c, "es_expire", loc)
         ELSE Return(c, Result(FALSE, 0))
      /\ UNCHANGED <<queueVars, now, sessVars, cacheVars, coordVars>>

\* extendSession: await client.expire(sessionKey, additionalSeconds); return true
EsExpire(c) ==
  /\ cpc[c] = "es_expire"
  /\ sessions' = IF SessLive(cloc[c].sessionId)
                 THEN [sessions EXCEPT ![cloc[c].sessionId].exp =
                          now + cloc[c].ttl * 1000]
                 ELSE sessions
  /\ Return(c, Result(TRUE, 0))
  /\ UNCHANGED <<queueVars, now, userSessions, sessionOwner, sessCreated,
                 sessDeleted, userPurged, cacheVars, coordVars>>

(* ========================== CacheService ================================ *)
\* full keys: cache:<name>, cache:rate_limit:<u>:<action>:<window>, cache:lock:<resource>
CacheKey(k) == <<"cache", k>>
WindowKey(window) == <<"rate_limit", window>>
LockKey == <<"lock", 1>>

CacheLive(key) == key \in DOMAIN cache /\ Unexpired(cache[key].exp)
TagLive(tag) == tag \in DOMAIN tagIndex /\ Unexpired(tagIndex[tag].exp)

\* CacheService.get: a missing key and a value that does not parse are both null
CacheGet(key) ==
  IF CacheLive(key) /\ cache[key].parses THEN cache[key] ELSE NullEntry

\* CacheService.set: setEx(fullKey, options.ttl || DEFAULT_TTL, JSON.stringify(value))
CacheSetEx(key, value, ttlOpt) ==
  [x \in (DOMAIN cache) \cup {key} |->
     IF x = key
     THEN [val |-> value, parses |-> TRUE,
           exp |-> now + OrDefault(ttlOpt, CACHE_DEFAULT_TTL) * 1000]
     ELSE cache[x]]

TagMembers(tag) == IF TagLive(tag) THEN tagIndex[tag].members ELSE {}

\* CacheService.set(key, value, options)
CacheSet(c, k, ttlOpt) ==
  /\ cpc[c] = "idle"
  /\ cache' = CacheSetEx(CacheKey(k), 1, ttlOpt)
  /\ Return(c, Result(TRUE, 0))
  /\ UNCHANGED <<queueVars, now, sessVars, tagIndex, cacheTags, allowed, grants,
                 coordVars>>

\* CacheService.get(key, options)
CacheRead(c, k) ==
  /\ cpc[c] = "idle"
  /\ Return(c, Result(CacheGet(CacheKey(k)) # NullEntry, 0))
  /\ UNCHANGED <<queueVars, now, sessVars, cacheVars, coordVars>>

\* what the computeFn of caller c resolves to
ComputedValue(c) == c

\* getOrSet, up to and including its this.get
GetOrSet(c, k, ttlOpt) ==
  LET cachedValue == CacheGet(CacheKey(k))
  IN  /\ cpc[c] = "idle"
      /\ IF cachedValue # NullEntry
         THEN Return(c, Result(TRUE, cachedValue.val))
         ELSE Goto(c, "gos_compute", [NullCall EXCEPT !.op = "getOrSet",
                                        !.key = CacheKey(k), !.ttl = ttlOpt])
      /\ UNCHANGED <<queueVars, now, sessVars, cacheVars, coordVars>>

\* getOrSet: const computedValue = await computeFn()
GosCompute(c) ==
  /\ cpc[c] = "gos_compute"
  /\ Goto(c, "gos_set", [cloc[c] EXCEPT !.value = ComputedValue(c)])
  /\ UNCHANGED <<queueVars, now, sessVars, cacheVars, coordVars>>

\* variant of GosSet: the value is stored only if the key is still missing,
\* and the call returns what the key holds
GosSetIfAbsent(c) ==
  LET held == CacheGet(cloc[c].key)
  IN  /\ cpc[c] = "gos_set"
      /\ IF held # NullEntry
         THEN /\ UNCHANGED cache
              /\ Return(c, Result(TRUE, held.val))
         ELSE /\ cache' = CacheSetEx(cloc[c].key, cloc[c].value, cloc[c].ttl)
              /\ Return(c, Result(TRUE, cloc[c].value))
      /\ UNCHANGED <<queueVars, now, sessVars, tagIndex, cacheTags, allowed, grants,
                     coordVars>>

\* getOrSet: await this.set(key, computedValue, options); return computedValue
GosSet(c) ==
  /\ cpc[c] = "gos_set"
  /\ cache' = CacheSetEx(cloc[c].key, cloc[c].value, cloc[c].ttl)
  /\ Return(c, Result(TRUE, cloc[c].value))
  /\ UNCHANGED <<queueVars, now, sessVars, tagIndex, cacheTags, allowed, grants,
                 coordVars>>

\* setWithTags, up to and including its this.set
SetWithTags(c, k, tags, ttlOpt) ==
  /\ cpc[c] = "idle"
  /\ cache' = CacheSetEx(CacheKey(k), 1, ttlOpt)
  /\ Goto(c, "sw_tags", [NullCall EXCEPT !.op = "setWithTags", !.key = CacheKey(k),
                           !.tags = tags,
                           !.ttl = OrDefault(ttlOpt, CACHE_DEFAULT_TTL)])
  /\ UNCHANGED <<queueVars, now, sessVars, tagIndex, cacheTags, allowed, grants,
                 coordVars>>

EverTagged(x) == IF x \in DOMAIN cacheTags THEN cacheTags[x].ever ELSE {}

\* setWithTags: the multi of sAdd(tagKey, fullKey) and expire(tagKey, ttl) per tag
SwTags(c) ==
  /\ cpc[c] = "sw_tags"
  /\ tagIndex' =
       [g \in (DOMAIN tagIndex) \cup cloc[c].tags |->
          IF g \in cloc[c].tags
          THEN [members |-> TagMembers(g) \cup {cloc[c].key},
                exp |-> now + cloc[c].ttl * 1000]
          ELSE tagIndex[g]]
  /\ cacheTags' = [x \in (DOMAIN cacheTags) \cup {cloc[c].key} |->
                     IF x = cloc[c].key
                     THEN [last |-> cloc[c].tags,
                           ever |-> cloc[c].tags \cup EverTagged(x)]
                     ELSE cacheTags[x]]
  /\ Return(c, Result(TRUE, 0))
  /\ UNCHANGED <<queueVars, now, sessVars, cache, allowed, grants, coordVars>>

\* invalidateByTags visits its tags in the order of the array
TagRank(g) == IF g = "t1" THEN 1 ELSE 2
NextTag(T) == CHOOSE g \in T : \A g2 \in T : TagRank(g) <= TagRank(g2)

\* invalidateByTags: const keys = await client.sMembers(tagKey), for the next tag
IvVisit(c, loc) ==
  LET tag == NextTag(loc.todo)
      keys == TagMembers(tag)
      rest == loc.todo \ {tag}
  IN  IF keys # {}
      THEN Goto(c, "iv_del", [loc EXCEPT !.keys = keys])
      ELSE IF rest # {}
           THEN Goto(c, "iv_members", [loc EXCEPT !.todo = rest])
           ELSE Return(c, Result(loc.value > 0, loc.value))

\* invalidateByTags, up to and including the sMembers of its first tag
InvalidateByTags(c, tags) ==
  /\ cpc[c] = "idle"
  /\ IvVisit(c, [NullCall EXCEPT !.op = "invalidateByTags", !.tags = tags,
                   !.todo = tags,
                   !.snapshot = {x \in DOMAIN cacheTags : CacheLive(x)}])
  /\ UNCHANGED <<queueVars, now, sessVars, cacheVars, coordVars>>

IvMembers(c) ==
  /\ cpc[c] = "iv_members"
  /\ IvVisit(c, cloc[c])
  /\ UNCHANGED <<queueVars, now, sessVars, cacheVars, coordVars>>

\* invalidateByTags: const deleted = await client.del([...keys, tagKey])
IvDel(c) ==
  LET tag == NextTag(cloc[c].todo)
      rest == cloc[c].todo \ {tag}
      deleted == Cardinality({x \in cloc[c].keys : CacheLive(x)})
                   + (IF TagLive(tag) THEN 1 ELSE 0)
      totalDeleted == cloc[c].value + deleted
  IN  /\ cpc[c] = "iv_del"
      /\ cache' = [x \in (DOMAIN cache) \ cloc[c].keys |-> cache[x]]
      /\ tagIndex' = [g \in (DOMAIN tagIndex) \ {tag} |-> tagIndex[g]]
      /\ IF rest # {}
         THEN Goto(c, "iv_members", [cloc[c] EXCEPT !.todo = rest, !.keys = {},
                                                    !.value = totalDeleted])
         ELSE Return(c, Result(totalDeleted > 0, totalDeleted))
      /\ UNCHANGED <<queueVars, now, sessVars, cacheTags, allowed, grants, coordVars>>

(* ------------------- checkRateLimit, acquireDistributedLock ------------- *)
\* Math.ceil(windowMs / 1000)
CeilSeconds(ms) == (ms + 999) \div 1000

\* checkRateLimit(userId, action, MaxRequests, RATE_WINDOW_MS), up to and
\* including its cache.get and the comparison
CheckRateLimit(c) ==
  LET window == now \div RATE_WINDOW_MS
      currentCount == CacheGet(WindowKey(window)).val
  IN  /\ cpc[c] = "idle"
      /\ window <= MaxWindows
      /\ IF currentCount >= MaxRequests
         THEN Return(c, Result(FALSE, 0))
         ELSE Goto(c, "rl_set", [NullCall EXCEPT !.op = "checkRateLimit",
                                   !.window = window, !.value = currentCount])
      /\ UNCHANGED <<queueVars, now, sessVars, cacheVars, coordVars>>

Allowed(window) == IF window \in DOMAIN allowed THEN allowed[window] ELSE 0

\* checkRateLimit: await cache.set(windowKey, currentCount + 1, {ttl}); return true
RlSet(c) ==
  LET window == cloc[c].window
  IN  /\ cpc[c] = "rl_set"
      /\ cache' = CacheSetEx(WindowKey(window), cloc[c].value + 1,
                             CeilSeconds(RATE_WINDOW_MS))
      /\ allowed' = [w \in (DOMAIN allowed) \cup {window} |->
                       IF w = window THEN Allowed(window) + 1 ELSE allowed[w]]
      /\ Return(c, Result(TRUE, 0))
      /\ UNCHANGED <<queueVars, now, sessVars, tagIndex, cacheTags, grants, coordVars>>

\* `${Date.now()}-${Math.random()}`: a value no other call has
LockValue(c) == Cardinality(grants) * NumCalls + c

\* acquireDistributedLock(resource), up to and including the get of getOrSet;
\* a cached value is never the caller's own lockValue
AcquireDistributedLock(c) ==
  /\ cpc[c] = "idle"
  /\ Cardinality(grants) < MaxLocks
  /\ IF CacheGet(LockKey) # NullEntry
     THEN Return(c, Result(FALSE, 0))
     ELSE Goto(c, "lk_set", [NullCall EXCEPT !.op = "acquireDistributedLock",
                               !.value = LockValue(c)])
  /\ UNCHANGED <<queueVars, now, sessVars, cacheVars, coordVars>>

\* getOrSet: await this.set(key, computedValue, options); the caller gets its
\* own lockValue back and returns it
LkSet(c) ==
  /\ cpc[c] = "lk_set"
  /\ cache' = CacheSetEx(LockKey, cloc[c].value, LOCK_TTL_SECONDS)
  /\ grants' = grants \cup {[value |-> cloc[c].value,
                             exp |-> now + LOCK_TTL_SECONDS * 1000]}
  /\ Return(c, Result(TRUE, cloc[c].value))
  /\ UNCHANGED <<queueVars, now, sessVars, tagIndex, cacheTags, allowed, coordVars>>

(* ------------------------- malformed stored values ---------------------- *)
\* another writer of the shared store leaves text that is not JSON under a key
CorruptSession(s) ==
  /\ SessLive(s) /\ sessions[s].parses
  /\ CallsIdle
  /\ sessions' = [sessions EXCEPT ![s].parses = FALSE]
  /\ UNCHANGED <<queueVars, now, userSessions, sessionOwner, sessCreated,
                 sessDeleted, userPurged, cacheVars, callVars, coordVars>>

CorruptEntry(k) ==
  /\ CacheLive(CacheKey(k)) /\ cache[CacheKey(k)].parses
  /\ CallsIdle
  /\ cache' = [cache EXCEPT ![CacheKey(k)].parses = FALSE]
  /\ UNCHANGED <<queueVars, now, sessVars, tagIndex, cacheTags, allowed, grants,
                 callVars, coordVars>>

(* ------------------------ expiry of service keys ------------------------ *)
\* Time passes while no service call is between two store commands, and
\* moves straight to the next expiry time of a key.  The store drops a key
\* once its expiry time is reached.
ServiceExpiries ==
  {t \in {sessions[s].exp : s \in DOMAIN sessions}
           \cup {userSessions[u].exp : u \in DOMAIN userSessions} :
     t > now /\ t <= MaxDays * JOB_TTL_MS}
  \cup
  {t \in {cache[k].exp : k \in DOMAIN cache}
           \cup {tagIndex[g].exp : g \in DOMAIN tagIndex} :
     t > now /\ t <= MaxHours * 3600000}

Kept(f, t) == [x \in {y \in DOMAIN f : f[y].exp = NoExpiry \/ t < f[y].exp} |-> f[x]]

ExpireKeys(t) ==
  /\ t \in ServiceExpiries
  /\ CallsIdle
  /\ now' = t
  /\ sessions' = Kept(sessions, t)
  /\ userSessions' = Kept(userSessions, t)
  /\ cache' = Kept(cache, t)
  /\ tagIndex' = Kept(tagIndex, t)
  /\ UNCHANGED <<queueVars, sessionOwner, sessCreated, sessDeleted, userPurged,
                 cacheTags, allowed, grants, callVars, coordVars>>

(* --------------------------- specification ----------------------------- *)
\* one queue instance
Queue == 1

Enqueue ==
  \E id \in JobIds, type \in Types, priority \in PriorityOpts,
     maxAttempts \in MaxAttemptsOpts, delay \in DelayOpts :
     AddJob(id, type, priority, maxAttempts, delay)

Remove == \E id \in JobIds : RemoveJob(id)

Cleanup == \E olderThanMs \in CleanupOpts : CleanupCompletedJobs(olderThanMs)

Register == \E type \in Types : RegisterHandler(Queue, type)

Start == \E k \in Slots : StartProcessing(Queue, k) \/ StSet(k)

Stop == StopProcessing(Queue)

Fire == \E k \in Slots : TickFire(Queue, k)

Promotion == \E k \in Slots : PdGet(k) \/ PdRem(k) \/ PdAdd(k)

Dispatch == \E k \in Slots : PnRead(k) \/ PnGet(k) \/ PnDrop(k) \/ PnRem(k) \/ PnAdd(k)

Execution ==
  \E k \in Slots :
    \/ ExUpdate(k) \/ HandlerReturn(k) \/ HandlerThrow(k)
    \/ ExDone(k) \/ ExRem(k) \/ ExAdd(k)
    \/ RtRem(k) \/ RtAdd(k) \/ RtUpdate(k)
    \/ FjUpdate(k) \/ FjRem(k) \/ FjAdd(k)

Tick == Fire \/ Promotion \/ Dispatch \/ Execution

Clock == \E t \in ClockTargets : AdvanceClock(t)

\* a queue that is started once and left running
Next == Enqueue \/ Remove \/ Register \/ Start \/ Tick \/ Clock

Spec == Init /\ [][Next]_vars

\* the same queue with stopProcessing, for jobs of default priority and attempts
EnqueuePlain ==
  \E id \in JobIds, type \in Types, delay \in DelayOpts : AddJob(id, type, 0, 0, delay)

NextStop == EnqueuePlain \/ Remove \/ Register \/ Start \/ Stop \/ Tick \/ Clock

SpecStop == Init /\ [][NextStop]_vars

\* the same queue over more than a record lifetime, one delay exceeding it
EnqueueLong ==
  \E id \in JobIds, type \in Types, delay \in LongDelayOpts :
     AddJob(id, type, 0, 0, delay)

NextExpiry == EnqueueLong \/ Register \/ Start \/ Tick \/ Clock \/ AdvanceDay

SpecExpiry == Init /\ [][NextExpiry]_vars

\* the awaited steps of a callback that has started: promotion and dispatch
\* of a job whose record is there, a handler's run, a failure, a retry
MoveSteps(k) ==
  \/ PdGet(k) \/ PdRem(k) \/ PdAdd(k)
  \/ PnRead(k) \/ PnGet(k) \/ PnRem(k) \/ PnAdd(k)

RunSteps(k) ==
  \/ ExUpdate(k) \/ HandlerReturn(k) \/ HandlerThrow(k)
  \/ ExDone(k) \/ ExRem(k) \/ ExAdd(k)

FailSteps(k) == FjUpdate(k) \/ FjRem(k) \/ FjAdd(k)

RetrySteps(k) == RtRem(k) \/ RtAdd(k) \/ RtUpdate(k)

TickSteps(k) == MoveSteps(k) \/ RunSteps(k) \/ FailSteps(k) \/ RetrySteps(k)

\* setInterval fires whether or not the callback of the previous tick has
\* returned: a new callback takes the first slot that is free
FirstFree(k) == pc[k] = "idle" /\ \A k2 \in AllSlots : k2 < k => pc[k2] # "idle"

StartOverlap ==
  \E k \in AllSlots : (FirstFree(k) /\ StartProcessing(Queue, k)) \/ StSet(k)

FireOverlap == \E k \in AllSlots : FirstFree(k) /\ TickFire(Queue, k)

TickOverlap == FireOverlap \/ \E k \in AllSlots : TickSteps(k)

\* the queue with handlers that outlast the tick interval
NextOverlap == EnqueuePlain \/ Register \/ StartOverlap \/ TickOverlap \/ Clock

SpecOverlap == Init /\ [][NextOverlap]_vars

\* the same queue with its housekeeping call
NextCleanup ==
  EnqueuePlain \/ Remove \/ Cleanup \/ Register \/ Start \/ Tick \/ Clock

SpecCleanup == Init /\ [][NextCleanup]_vars

\* The queue as a running system.  startProcessing is called and its timer
\* goes on firing, every awaited command and every handler comes back, and
\* time goes on; the ticks keep up with the clock, which moves only while the
\* queue has nothing that a tick would move, and then to the next due time.
Drained ==
  /\ isProcessing[Queue] /\ timers[Queue] > 0
  /\ waiting = <<>> /\ active = {}
  /\ \A j \in DOMAIN delayed : delayed[j] > now

ClockDrained ==
  \E t \in ClockTargets :
     Drained /\ (\A t2 \in ClockTargets : t <= t2) /\ AdvanceClock(t)

\* no record is lost under a tick's hands: the entry it reads has its record
TickLive == Fire \/ \E k \in Slots : TickSteps(k)

NextLive == EnqueueLong \/ Register \/ Start \/ TickLive \/ ClockDrained

Fairness == WF_vars(Start) /\ WF_vars(TickLive) /\ SF_vars(ClockDrained)

SpecLive == Init /\ [][NextLive]_vars /\ Fairness

\* two processes run the same queue name against the same store: each has
\* its own JobQueueService object (handlers, isProcessing, timer), and the
\* callback of instance i runs in slot i
RegisterAny == \E i \in Insts, type \in Types : RegisterHandler(i, type)

StartAny == \E i \in Insts : StartProcessing(i, i) \/ StSet(i)

FireAny == \E i \in Insts : TickFire(i, i)

TickAny ==
  FireAny \/ \E i \in Insts : MoveSteps(i) \/ RunSteps(i) \/ FailSteps(i)

\* the jobs that the two instances compete for, each with a single attempt
RaceJobs == NumJobs - 1

EnqueueRace ==
  \E id \in 1..RaceJobs, type \in Types, delay \in DelayOpts :
     AddJob(id, type, 0, 1, delay)

NextInstances == EnqueueRace \/ RegisterAny \/ StartAny \/ TickAny \/ Clock

SpecInstances == Init /\ [][NextInstances]_vars

\* the same two instances with removeJob and the housekeeping call
DropAny == \E i \in Insts : PnDrop(i)

NextShared == NextInstances \/ DropAny \/ Remove \/ Cleanup

SpecShared == Init /\ [][NextShared]_vars

(* ----------------- specification of the session store ------------------ *)
ExtendOpts == {2 * SESSION_DEFAULT_TTL}

\* the caller of a store that is used by one request at a time
OneCaller == {1}

SessCreate(C) ==
  \E c \in C :
     \/ \E userId \in Users, ttlOpt \in SessionTtlOpts : CreateSession(c, userId, ttlOpt)
     \/ CsAdd(c) \/ CsExpire(c)

SessRead(C) ==
  \E c \in C :
     \/ \E sessionId \in SessionIds :
          \/ GetSession(c, sessionId) \/ IsValidSession(c, sessionId)
          \/ UpdateSession(c, sessionId) \/ DeleteSession(c, sessionId)
     \/ GsSet(c) \/ UsSet(c) \/ DsRem(c) \/ DsDel(c)

SessExtend(C) ==
  \E c \in C :
     \/ \E sessionId \in SessionIds, secs \in ExtendOpts :
          ExtendSession(c, sessionId, secs)
     \/ EsExpire(c)

SessPurge(C) ==
  \E c \in C : (\E userId \in Users : DeleteUserSessions(c, userId)) \/ DuDel(c)

Expiry == \E t \in ServiceExpiries : ExpireKeys(t)

\* sessions of several users with any TTLs, one call at a time
NextSession ==
  \/ SessCreate(OneCaller) \/ SessRead(OneCaller) \/ SessPurge(OneCaller)
  \/ Expiry

SpecSession == Init /\ [][NextSession]_vars

\* the same with extendSession
NextSessionExtend == NextSession \/ SessExtend(OneCaller)

SpecSessionExtend == Init /\ [][NextSessionExtend]_vars

\* extendSession with a period below and a period above the default TTL
ExtendAnyOpts == {SESSION_DEFAULT_TTL \div 2, 2 * SESSION_DEFAULT_TTL}

SessExtendAny ==
  \E c \in OneCaller :
     \/ \E sessionId \in SessionIds, additionalSeconds \in ExtendAnyOpts :
          ExtendSession(c, sessionId, additionalSeconds)
     \/ EsExpire(c)

NextExtendAny == SessCreate(OneCaller) \/ SessExtendAny \/ Expiry

SpecExtendAny == Init /\ [][NextExtendAny]_vars

\* sessions of default TTL of one user, used from concurrent requests
RaceSessions == NumSessions - 1

SessCreatePlain ==
  \E c \in Calls :
     \/ NewSessionId <= RaceSessions /\ CreateSession(c, 1, 0)
     \/ CsAdd(c) \/ CsExpire(c)

NextSessionRace == SessCreatePlain \/ SessRead(Calls) \/ Expiry

SpecSessionRace == Init /\ [][NextSessionRace]_vars

(* -------------------- specification of the cache ----------------------- *)
TagSets == (SUBSET Tags) \ {{}}

CacheTagged(C) ==
  \E c \in C :
     \/ \E k \in Keys, tags \in TagSets, ttlOpt \in CacheTtlOpts :
          SetWithTags(c, k, tags, ttlOpt)
     \/ SwTags(c)

CacheInvalidate(C) ==
  \E c \in C :
     \/ \E tags \in TagSets : InvalidateByTags(c, tags)
     \/ IvMembers(c) \/ IvDel(c)

\* tagged entries with any TTLs, one call at a time
NextCacheTags == CacheTagged(OneCaller) \/ CacheInvalidate(OneCaller) \/ Expiry

SpecCacheTags == Init /\ [][NextCacheTags]_vars

\* one user and action, called from concurrent requests
RateLimit == \E c \in Calls : CheckRateLimit(c) \/ RlSet(c)

NextRateLimit == RateLimit \/ Expiry

SpecRateLimit == Init /\ [][NextRateLimit]_vars

\* one resource, locked from concurrent requests
Lock == \E c \in Calls : AcquireDistributedLock(c) \/ LkSet(c)

NextLock == Lock \/ Expiry

SpecLock == Init /\ [][NextLock]_vars

\* get-or-compute on shared keys, called from concurrent requests
GetOrCompute ==
  \E c \in Calls :
     \/ \E k \in Keys, ttlOpt \in CacheTtlOpts : GetOrSet(c, k, ttlOpt)
     \/ GosCompute(c) \/ GosSet(c)

NextGetOrSet == GetOrCompute \/ Expiry

SpecGetOrSet == Init /\ [][NextGetOrSet]_vars

\* sessions and cache entries of default TTL next to a writer of malformed values
CachePlain == \E c \in OneCaller, k \in Keys : CacheSet(c, k, 0) \/ CacheRead(c, k)

Corrupt ==
  \/ \E s \in SessionIds : CorruptSession(s)
  \/ \E k \in Keys : CorruptEntry(k)

NextMalformed == SessCreatePlain \/ SessRead(OneCaller) \/ CachePlain \/ Corrupt

SpecMalformed == Init /\ [][NextMalformed]_vars

(* =========================== RedisService ============================== *)
\* The coordinator owns three queues that share no key.  The model follows
\* one of the two that the schedule methods feed, as instance Queue.
CoordQueues == {"notifications", "reminders"}

\* the types setupJobHandlers registers on a queue
HandlerTypes(q) ==
  CASE q = "notifications" -> {"vendor_cart_add", "vendor_wishlist_add"}
    [] q = "reminders" -> {"response_reminder", "alternative_vendor_recommendation"}
    [] OTHER -> {"cleanup_expired_sessions", "cache_warmup"}

\* RedisService.getInstance(): the constructor creates the queues
GetInstance(q) ==
  /\ coord = "new"
  /\ coord' = "constructed"
  /\ cqueue' = q
  /\ UNCHANGED <<queueVars, now, sessVars, cacheVars, callVars>>

\* initialize: await redisClient.connect()
Connect ==
  /\ coord = "constructed"
  /\ coord' = "connected"
  /\ UNCHANGED <<queueVars, now, sessVars, cacheVars, callVars, cqueue>>

\* initialize: this.setupJobHandlers()
SetupJobHandlers ==
  /\ coord = "connected"
  /\ coord' = "registered"
  /\ handlers' = [handlers EXCEPT ![Queue] = @ \cup HandlerTypes(cqueue)]
  /\ UNCHANGED <<storeVars, isProcessing, processingInterval, timers, slotVars,
                 histVars, sessVars, cacheVars, callVars, cqueue>>

\* variant of HandlersRegistered: the queues are started as soon as the store
\* is connected
HandlersPending == coord \in {"connected", "registered"}

\* initialize has got past setupJobHandlers
HandlersRegistered == coord = "registered"

\* initialize: await this.<queue>.startProcessing(intervalMs)
StartQueue(k) == HandlersRegistered /\ StartProcessing(Queue, k)

\* the schedule methods are addJob with a fixed type and priority; a command
\* issued before connect is taken to reach the store
ScheduleVendorNotification(id, type) ==
  /\ coord # "new" /\ cqueue = "notifications"
  /\ AddJob(id, IF type = "cart_add" THEN "vendor_cart_add" ELSE "vendor_wishlist_add",
            5, 0, 0)

ScheduleResponseReminder(id, delayMs) ==
  /\ coord # "new" /\ cqueue = "reminders"
  /\ AddJob(id, "response_reminder", 3, 0, delayMs)

ScheduleAlternativeVendorRecommendation(id, delayMs) ==
  /\ coord # "new" /\ cqueue = "reminders"
  /\ AddJob(id, "alternative_vendor_recommendation", 2, 0, delayMs)

Initialize ==
  \/ \E q \in CoordQueues : GetInstance(q)
  \/ Connect \/ SetupJobHandlers
  \/ \E k \in Slots : StartQueue(k) \/ StSet(k)

Schedule ==
  \E id \in JobIds :
     \/ \E type \in {"cart_add", "wishlist_add"} : ScheduleVendorNotification(id, type)
     \/ \E delayMs \in DelayOpts :
          \/ ScheduleResponseReminder(id, delayMs)
          \/ ScheduleAlternativeVendorRecommendation(id, delayMs)

\* the coordinator from construction on, with its producers and removeJob on
\* its queue
NextCoordinator == Initialize \/ Schedule \/ Remove \/ Tick \/ Clock

SpecCoordinator == Init /\ [][NextCoordinator]_vars

(* ---------------------- vocabulary of the claims ----------------------- *)
InWaiting(j) == j \in DOMAIN waiting
InDelayed(j) == j \in DOMAIN delayed
InCompleted(j) == j \in DOMAIN completed

IndexCount(j) ==
  (IF InWaiting(j) THEN 1 ELSE 0) + (IF InDelayed(j) THEN 1 ELSE 0)
    + (IF j \in active THEN 1 ELSE 0) + (IF InCompleted(j) THEN 1 ELSE 0)
    + (IF j \in failed THEN 1 ELSE 0)

\* callback k returns in this step
Returns(k) == pc[k] # "idle" /\ pc'[k] = "idle"

\* callback k has moved tjob[k] to active and is executing it
Executing(k) ==
  pc[k] \in {"ex_update", "running", "ex_done", "ex_rem", "ex_add",
             "rt_rem", "rt_add", "rt_update", "fj_update", "fj_rem", "fj_add"}

AlwaysSucceeds(type) == Outcomes(type) = {"return"}
AlwaysThrows(type) == Outcomes(type) = {"throw"}

Priority(j) == GetJob(j).priority

\* C6 (as amended): when a tick reads the head of waiting, the job it picks
\* (and then moves to active) has a priority no lower than any other job in
\* waiting at the time of that read, promoted jobs included.
C6_HeadHasTopPriorityWhenRead ==
  [][\A k \in Slots :
       (pc[k] = "pn_read" /\ pc'[k] = "pn_get" /\ GetJob(tid'[k]) # NullJob)
       => \A j \in DOMAIN waiting :
            GetJob(j) # NullJob => Priority(j) <= Priority(tid'[k])]_vars

\* a promoted job of higher priority is picked ahead of a job with a smaller id
C6_Witness ==
  \E k \in Slots, j \in DOMAIN waiting :
    /\ pc[k] = "pn_get" /\ tid[k] # j /\ tid[k] > j
    /\ GetJob(tid[k]) # NullJob /\ GetJob(j) # NullJob
    /\ GetJob(tid[k]).delay > 0
    /\ Priority(j) < Priority(tid[k])

\* C6 (as stated): when a tick moves a job from waiting to active, no other
\* job in waiting at that moment has a strictly higher priority.
C6_HeadHasTopPriorityWhenMoved ==
  [][\A k \in Slots :
       (pc[k] \in {"pn_rem", "pn_add"} /\ pc'[k] # pc[k])
       => \A j \in (DOMAIN waiting) \ {tid[k]} :
            GetJob(j) # NullJob => Priority(j) <= tjob[k].priority]_vars

C2_DelayedPromotedWhenDue ==
  /\ \A j \in added \ removed :
       (GetJob(j) # NullJob /\ GetJob(j).delay > 0 /\ GetJob(j).attempts = 0
          /\ now < GetJob(j).scheduledFor)
       => (InDelayed(j) /\ ~InWaiting(j) /\ j \notin active)
  /\ \A k \in Slots :
       pc[k] \in {"pn_read", "st_set"}
       => \A j \in DOMAIN delayed : delayed[j] > tnow[k]

(* -------------------------------- C7 ----------------------------------- *)
\* C7: every job id that has been added and not removed is in exactly one of
\* the five indices.
C7_ExactlyOneIndex ==
  \A j \in added \ (removed \cup cleaned) : IndexCount(j) = 1

(* -------------------------------- C8 ----------------------------------- *)
\* C8: once removeJob(id) has returned, the id is in no index and getJob(id)
\* is null, whatever state the job was in.
C8_RemovedStaysRemoved ==
  \A j \in removed : IndexCount(j) = 0 /\ GetJob(j) = NullJob

(* -------------------------------- C9 ----------------------------------- *)
\* C9: while the instance is stopped (stopProcessing has returned and
\* startProcessing has not been called since) none of its callbacks promotes
\* a job from delayed or moves one from waiting to active.
C9_NoDispatchWhileStopped ==
  [][\A k \in Slots :
       (towner[k] = Queue /\ ~isProcessing[Queue])
       => ~(pc[k] \in {"pd_rem", "pd_add", "pn_rem", "pn_add"} /\ pc'[k] # pc[k])]_vars

(* ---------------- vocabulary of the session claims --------------------- *)
\* sessions whose createSession returned, by user
SessionsOf(u) == {s \in sessCreated : sessionOwner[s] = u}

\* isValidSession(s) would return true if it ran now
Valid(s) == SessGet(s) # NullSession

InIndex(s) == s \in SMembers(sessionOwner[s])

\* call c returns from deleteUserSessions(u) in this step, after its del or
\* straight after an empty sMembers
PurgeReturns(c, u) ==
  /\ cpc'[c] = "idle"
  /\ \/ cpc[c] = "du_del" /\ cloc[c].userId = u
     \/ /\ cpc[c] = "idle"
        /\ userPurged' # userPurged
        /\ userPurged' = userPurged \cup SessionsOf(u)

\* call c returns from a getSession that found the session
ReadReturns(c) == cpc[c] = "gs_set" /\ cloc[c].op = "getSession"

(* -------------------------------- C11 ---------------------------------- *)
\* C11: deleteUserSessions(u), called after n sessions were created for u of
\* which none was deleted or has expired, returns n.
C11_PurgeReturnsSessionCount ==
  [][\A c \in Calls, u \in Users :
       (/\ PurgeReturns(c, u)
        /\ \A s \in SessionsOf(u) : Valid(s) /\ s \notin sessDeleted \cup userPurged)
       => cres'[c].n = Cardinality(SessionsOf(u))]_vars

(* -------------------------------- C12 ---------------------------------- *)
\* C12: once deleteUserSessions(u) has returned, no session that had been
\* created for u is valid.
C12_PurgedSessionsInvalid ==
  \A s \in userPurged : ~Valid(s)

(* -------------------------------- C13 ---------------------------------- *)
\* C13: once deleteSession(id) has returned, the session is absent for
\* isValidSession(id) and getSession(id), also when a getSession(id) or
\* updateSession(id) was in progress during the delete.
C13_DeletedSessionStaysAbsent ==
  \A s \in sessDeleted : ~Valid(s)

(* -------------------------------- C14 ---------------------------------- *)
\* C14: every live session id is a member of the session-index set of the
\* user recorded in the session.  Stated for the states between calls, and
\* for sessions whose createSession has returned.
C14_LiveSessionInIndex ==
  CallsIdle => \A s \in sessCreated : Valid(s) => InIndex(s)

(* -------------------------------- C15 ---------------------------------- *)
\* C15: a getSession that finds the session leaves neither the session
\* record nor the index set of its user expiring sooner than before the read.
C15_ReadExtendsBothTtls ==
  [][\A c \in Calls :
       ReadReturns(c)
       => LET s == cloc[c].sessionId
              u == cloc[c].sessionData.userId
          IN  /\ Valid(s) => sessions'[s].exp >= sessions[s].exp
              /\ IndexLive(u) => userSessions'[u].exp >= userSessions[u].exp]_vars

(* -------------------------------- C16 ---------------------------------- *)
\* what invalidateByTags(T) has to leave behind, for the tagged entries that
\* were live when it was called
Invalidated(T, snapshot) ==
  /\ \A x \in snapshot :
       /\ cacheTags[x].last \cap T # {} => x \notin DOMAIN cache'
       /\ cacheTags[x].ever \cap T = {} => x \in DOMAIN cache'
  /\ \A g \in T : g \notin DOMAIN tagIndex'

\* C16: when invalidateByTags(T) returns, every live entry whose last
\* setWithTags named a tag in T is gone, the tag-index key of every tag in T is
\* gone, and every entry never stored with a tag in T is still there.
C16_InvalidateRemovesTagged ==
  [][\A c \in Calls :
       /\ \A T \in TagSets :
            (InvalidateByTags(c, T) /\ cpc'[c] = "idle")
            => Invalidated(T, {x \in DOMAIN cacheTags : CacheLive(x)})
       /\ ((IvMembers(c) \/ IvDel(c)) /\ cpc'[c] = "idle")
          => Invalidated(cloc[c].tags, cloc[c].snapshot)]_vars

(* -------------------------------- C17 ---------------------------------- *)
\* C17: a read of a stored value that does not parse is a miss: cache get
\* and session getSession return null for it and do not raise.
C17_MalformedIsMiss ==
  [][\A c \in Calls :
       /\ \A s \in SessionIds :
            (GetSession(c, s) /\ SessLive(s) /\ ~sessions[s].parses)
            => (~cres'[c].raised /\ ~cres'[c].ok)
       /\ \A k \in Keys :
            (CacheRead(c, k) /\ CacheLive(CacheKey(k)) /\ ~cache[CacheKey(k)].parses)
            => (~cres'[c].raised /\ ~cres'[c].ok)]_vars

(* -------------------------------- C18 ---------------------------------- *)
\* C18: in no time window does checkRateLimit return true for more than
\* maxRequests calls of one user and action, concurrent calls included.
C18_AtMostMaxRequestsPerWindow ==
  \A window \in DOMAIN allowed : allowed[window] <= MaxRequests

(* -------------------------------- C19 ---------------------------------- *)
\* locks handed out for the resource that have not expired
HeldLocks == {g \in grants : now < g.exp}

\* C19: at no time do two callers hold an unexpired lock value for the same
\* resource, whatever the interleaving of the acquire calls.
C19_LockMutualExclusion == Cardinality(HeldLocks) <= 1

(* -------------------------------- C20 ---------------------------------- *)
\* C20: the coordinator's queue holds the handlers of all its job types
\* before any of its callbacks runs, so no job enqueued by a schedule method
\* is dispatched without a registered handler for its type.
C20_HandlersBeforeTicking ==
  /\ (timers[Queue] > 0 \/ \E k \in Slots : pc[k] # "idle")
     => HandlerTypes(cqueue) \subseteq handlers[Queue]
  /\ \A k \in Slots :
       Executing(k)
       => (tjob[k].type \in handlers[towner[k]] /\ tjob[k].error # "nohandler")
  /\ \A j \in failed : GetJob(j) # NullJob => GetJob(j).error # "nohandler"

\* a reminder scheduled before initialize, with a delay, has been run by its
\* handler
C20_Witness ==
  \E j \in DOMAIN completed :
    /\ GetJob(j).type = "response_reminder" /\ GetJob(j).delay > 0
    /\ execs[j] >= 1 /\ cqueue = "reminders" /\ coord = "registered"

(* -------------------------------- C21 ---------------------------------- *)
\* C21: within one processing instance at most one job of the queue is in
\* the active index at any time, however long a handler runs against the tick
\* interval.
C21_OneActiveJob == Cardinality(active) <= 1

(* -------------------------------- C22 ---------------------------------- *)
\* C22: two instances that run the same queue against the same store can
\* both dispatch one job.  A callback that has read the head of waiting and
\* found its record moves the job to active and runs its handler whether or
\* not the entry is still in waiting: no step of the move claims the entry.
C22_NoAtomicClaim ==
  [][\A k \in AllSlots :
       /\ (pc[k] = "pn_rem" /\ pc'[k] # "pn_rem") => pc'[k] = "pn_add"
       /\ (pc[k] = "pn_add" /\ pc'[k] # "pn_add")
          => (tid[k] \in active' /\ pc'[k] \in {"ex_update", "fj_update"})
       /\ (pc[k] = "ex_update" /\ pc'[k] # "ex_update")
          => (pc'[k] = "running" /\ execs'[tid[k]] = execs[tid[k]] + 1)]_vars

\* the handlers of both instances are running for one job that was added to
\* waiting once: both had read the entry before either removed it
C22_Witness ==
  \E j \in JobIds :
    /\ pc[1] = "running" /\ pc[2] = "running"
    /\ towner[1] # towner[2]
    /\ tjob[1].id = j /\ tjob[2].id = j
    /\ GetJob(j).delay = 0
    /\ execs[j] = 2

(* -------------------------------- C23 ---------------------------------- *)
\* callback k is in the catch block of executeJob
Catching(k) ==
  /\ pc[k] \in {"rt_rem", "rt_add", "rt_update", "fj_update", "fj_rem", "fj_add"}
  /\ tjob[k].error # "nohandler"

\* C23: a handler's exception stays inside the tick.  The callback goes on in
\* the catch block, which puts the job into delayed or into failed; no step
\* of it touches the timer or the processing flag, and it returns with its
\* slot free for the next tick.
C23_ThrowStaysInTick ==
  [][\A k \in Slots :
       /\ (pc[k] = "running" /\ pc'[k] \notin {"running", "ex_done"})
          => pc'[k] \in {"rt_rem", "fj_update"}
       /\ ((pc[k] = "running" \/ Catching(k)) /\ pc'[k] # pc[k])
          => /\ timers' = timers
             /\ processingInterval' = processingInterval
             /\ isProcessing' = isProcessing
       /\ (Catching(k) /\ pc[k] = "rt_add" /\ pc'[k] # pc[k])
          => tjob[k].id \in DOMAIN delayed'
       /\ (Catching(k) /\ pc[k] = "fj_add" /\ pc'[k] # pc[k])
          => tjob[k].id \in failed'
       /\ (Catching(k) /\ Returns(k))
          => /\ pc[k] \in {"rt_update", "fj_add"}
             /\ tjob[k].id \notin active'
             /\ tkind[k] = "tick" => timers'[towner[k]] > 0]_vars

\* a job failed by its handler's exception, and a job that only became due
\* after that failure has been promoted, dispatched and completed
C23_Witness ==
  \E j \in failed, j2 \in DOMAIN completed :
    /\ GetJob(j).error = "exception" /\ execs[j] >= 1
    /\ GetJob(j2).delay > 0 /\ execs[j2] = 1
    /\ GetJob(j2).scheduledFor > jobStore[j].exp - JOB_TTL_MS
    /\ timers[Queue] > 0

(* -------------------------------- C24 ---------------------------------- *)
\* C24: between calls, for every live entry and every tag of its last
\* setWithTags, the tag index lists the entry, and while the index exists it
\* does not expire before the entry.
C24_TagIndexOutlivesEntries ==
  CallsIdle
  => \A x \in DOMAIN cacheTags :
       CacheLive(x)
       => \A g \in cacheTags[x].last :
            /\ TagLive(g) => tagIndex[g].exp >= cache[x].exp
            /\ x \in TagMembers(g)

(* -------------------------------- C25 ---------------------------------- *)
\* C25: getOrSet is not atomic.  A caller that has observed a miss invokes
\* its compute function and stores and returns the result whatever another
\* caller has stored under the key since the miss.
C25_GetOrSetNotAtomic ==
  [][\A c \in Calls :
       /\ (cpc[c] = "gos_compute" /\ cpc'[c] # "gos_compute")
          => (cpc'[c] = "gos_set" /\ cloc'[c].value = ComputedValue(c))
       /\ (cpc[c] = "gos_set" /\ cpc'[c] # "gos_set")
          => /\ cache'[cloc[c].key].val = cloc[c].value
             /\ cres'[c].n = cloc[c].value]_vars

\* two callers saw a miss for one key and both computed; the first has stored
\* and returned its value, which the second is about to overwrite with its own
C25_Witness ==
  \E c \in Calls, c2 \in Calls :
    /\ c # c2
    /\ cpc[c] = "idle" /\ cres[c].n = ComputedValue(c)
    /\ cpc[c2] = "gos_set" /\ cloc[c2].value = ComputedValue(c2)
    /\ CacheLive(cloc[c2].key)
    /\ cache[cloc[c2].key].val = ComputedValue(c)
    /\ cache[cloc[c2].key].exp = now + CACHE_DEFAULT_TTL * 1000

(* -------------------------------- C26 ---------------------------------- *)
Done(j) == InCompleted(j) \/ j \in failed

\* C26: while processing runs, handlers come back and no job is removed,
\* every job that was added is eventually in completed or in failed.
C26_EveryJobFinishes == \A j \in JobIds : (j \in added) ~> Done(j)

(* -------------------------------- C27 ---------------------------------- *)
\* at most one instance has started processing the queue
OneInstance == Cardinality({i \in Insts : isProcessing[i]}) <= 1

\* a step leaves a finished job j finished: in none of waiting, delayed,
\* active, its handler not invoked, and still in completed or failed unless
\* the step was its removeJob or a cleanupCompletedJobs that took it
StaysDone(j) ==
  Done(j)
  => /\ j \notin DOMAIN waiting' /\ j \notin DOMAIN delayed' /\ j \notin active'
     /\ execs'[j] = execs[j]
     /\ \/ j \in DOMAIN completed' \/ j \in failed'
        \/ j \in removed' \ removed
        \/ j \in cleaned' \ cleaned

StoredAttempts(j) == GetJob(j).attempts

\* the stored counter of j is the number of its handler invocations and is
\* within maxAttempts
AttemptsCounted(j) ==
  GetJob(j) # NullJob
  => (StoredAttempts(j) = execs[j] /\ StoredAttempts(j) <= GetJob(j).maxAttempts)

\* a step changes the stored counter of j only by +1, and only as callback k
\* enters the execution of j
AttemptsStep(j) ==
  (GetJob(j) # NullJob /\ jobStore'[j].val.attempts # StoredAttempts(j))
  => /\ jobStore'[j].val.attempts = StoredAttempts(j) + 1
     /\ \E k \in AllSlots : pc[k] = "ex_update" /\ pc'[k] = "running" /\ tjob[k].id = j

Starting(i) == \E k \in AllSlots : towner[k] = i /\ tkind[k] = "start"

\* C29: the instance has at most one interval timer, and none while it is
\* stopped with no startProcessing call in progress.
C29_NoTimerWhileStopped ==
  /\ timers[Queue] <= 1
  /\ (~isProcessing[Queue] /\ ~Starting(Queue)) => timers[Queue] = 0

\* the step in which extendSession's expire is applied and the call returns
ExtendReturns(c) == cpc[c] = "es_expire" /\ cpc'[c] = "idle"

\* the step in which extendSession finds no key and returns false: the one
\* step of a call that starts no awaited command and lets no time pass
ExtendRefuses(c) ==
  /\ cpc[c] = "idle" /\ cpc' = cpc
  /\ now' = now
  /\ cres'[c] = Result(FALSE, 0)

\* C30: extendSession on a live session leaves it with at least the
\* remaining TTL it had before the call (the clock does not move during the
\* step, so expiry times compare as remaining TTLs); on a missing session
\* it returns false and the session keys are what they were.
C30_ExtendNeverShortens ==
  [][\A c \in Calls :
       /\ ExtendReturns(c) =>
            \A s \in DOMAIN sessions :
               SessLive(s) => /\ s \in DOMAIN sessions'
                              /\ sessions'[s].exp >= sessions[s].exp
       /\ ExtendRefuses(c) => sessions' = sessions]_vars

====
